---- MODULE Spec2Model ----
(***************************************************************************)
(* gh-secrets-cli: the OAuth device-flow polling loop                      *)
(* (GitHubOAuthDevice.pollForAccessToken) and the secret upload pipeline   *)
(* (GitHubService.createOrUpdateRepoSecret / batchCreateSecrets).          *)
(*                                                                         *)
(* Strings are TLC strings.  A JSON field that is absent, null or the      *)
(* empty string is written "": JavaScript treats all three as falsy and    *)
(* the code only ever tests these fields for truthiness or compares them   *)
(* with ===.  A response body that is null as a whole is a value of its    *)
(* own (NullBody): reading a field of it throws.                           *)
(***************************************************************************)
EXTENDS Integers, Sequences, FiniteSets, TLC

VARIABLES
    phase,        \* per attempt: where pollForAccessToken stands
    interval,     \* per attempt: the interval argument (seconds)
    deviceCode,   \* per attempt: the deviceCode argument
    posts,        \* per attempt: token requests issued so far (request bodies)
    waits,        \* per attempt: delays (ms) handed to setTimeout, in order
    responses,    \* per attempt: response.data of every answered token request
    result,       \* per attempt: the promise returned by pollForAccessToken
    thrown,       \* per attempt: errors thrown by its token requests, in order
    inflight,     \* per attempt: token requests issued and not yet answered
    timers,       \* per attempt: setTimeout timers set and not yet fired
    codeRequest,  \* per attempt: the promise returned by requestDeviceCode
    deviceAuth,   \* per attempt: the DeviceCodeResponse requestDeviceCode returned
    via,          \* per attempt: "authenticate" or "direct" (caller drives the steps)
    authResult,   \* per attempt: the promise returned by authenticate()
    upPhase,      \* upload: position inside createOrUpdateRepoSecret / the batch loop
    upMode,       \* upload: "none", "single" (direct call) or "batch"
    secrets,      \* upload: the entries being uploaded, <<[name, value], ...>>
    idx,          \* upload: index of the entry being processed
    publicKeyData,\* upload: local of createOrUpdateRepoSecret
    encryptedValue,\* upload: local of createOrUpdateRepoSecret
    keyLog,       \* upload: per createOrUpdateRepoSecret call, the key record fetched
    puts,         \* upload: PUT requests issued, in order
    putsDone,     \* upload: secret names of the PUT requests answered 201/204
    success,      \* upload: batchCreateSecrets' success list
    failed,       \* upload: batchCreateSecrets' failed list
    upResult,     \* upload: promise of the outermost call
    sodiumReady,  \* process-wide: the sodium.ready promise is fulfilled
    pureCall,     \* env-parser: the function applied, "none" if neither
    nameArg,      \* env-parser: the argument of validateSecretName
    nameResult,   \* env-parser: <<>> or <<what validateSecretName returned>>
    secretsArg,   \* env-parser: the argument of filterValidSecrets, as built
    filterResult, \* env-parser: <<>> or <<what filterValidSecrets returned>>
    encPhase,     \* per encryptSecret call: "idle", "awaiting", "returned", "thrown"
    encArgs,      \* per encryptSecret call: its arguments
    encOut,       \* per encryptSecret call: what it returned or threw
    encWaited,    \* per encryptSecret call: it was made before the library was ready
    sodiumInits,  \* process-wide: times the library's initialisation was started
    abandonedAt,  \* per attempt: <<>> or <<requests issued when the caller gave up>>
    callbackResult, \* cli: <<>> or <<what addSingleSecret's validate callback returned>>
    cliPhase,     \* cli: where start() stands
    authAttempts, \* cli: calls of SecretManagerCLI.authenticate so far
    services,     \* cli: the token of every GitHubService constructed, in order
    github,       \* cli: this.github, the number of a constructed service, 0 for null
    currentUser,  \* cli: this.currentUser
    lookupLog,    \* cli: every answered GET /user: the service used and the outcome
    retryAnswers, \* cli: the answers given to "Would you like to try again?"
    exitCode,     \* cli: <<>> or <<the code given to process.exit>>
    clientId,     \* cli: clientId of the latest authenticateWithOAuth call, "" before
    scopes        \* cli: scopes of the latest authenticateWithOAuth call, <<>> before

pollVars == <<phase, interval, deviceCode, posts, waits, responses, result,
              thrown, inflight, timers>>
authVars == <<codeRequest, deviceAuth, via, authResult>>
upVars == <<upPhase, upMode, secrets, idx, publicKeyData, encryptedValue,
            keyLog, puts, putsDone, success, failed, upResult, sodiumReady>>
pureVars == <<pureCall, nameArg, nameResult, secretsArg, filterResult>>
encVars == <<encPhase, encArgs, encOut, encWaited, sodiumInits>>
startVars == <<cliPhase, authAttempts, services, github, currentUser, lookupLog,
               retryAnswers, exitCode, clientId, scopes>>
cliVars == <<abandonedAt, callbackResult, startVars>>
vars == <<pollVars, authVars, upVars, pureVars, encVars, cliVars>>

----------------------------------------------------------------------------
(* Bounds of the model *)

\* token requests one attempt may issue
MaxPolls == 4
\* the interval argument ranges over 1..MaxInterval seconds
MaxInterval == 2
\* entries of the object handed to batchCreateSecrets
MaxSecrets == 2
\* length of the free part of a candidate secret name
MaxNameLen == 2
\* properties of the object handed to filterValidSecrets
MaxProps == 3
\* calls of SecretManagerCLI.authenticate within one start()
MaxAuthAttempts == 3

(* Program constants *)

\* seconds added to the delay that follows a slow_down response
SlowDownIncrement == 5
\* setTimeout takes milliseconds
MsPerSecond == 1000

----------------------------------------------------------------------------
(* Strings *)

\* s contains sub as a contiguous substring (String.prototype.includes)
Contains(s, sub) ==
    \E i \in 1..(Len(s) - Len(sub) + 1) : SubSeq(s, i, i + Len(sub) - 1) = sub

\* JavaScript truthiness of a string-valued (or absent) field
Truthy(v) == v # ""

----------------------------------------------------------------------------
(* GitHubOAuthDevice.pollForAccessToken *)

Attempts == {"a1", "a2"}

\* values of the interval argument (DeviceCodeResponse.interval, seconds)
Intervals == 1..MaxInterval

\* values of DeviceCodeResponse.expires_in (seconds): a short lifetime and
\* the provider's usual 15 minutes
ExpiresIns == {4, 900}

DeviceCodes == {"dc_3f9a"}

\* values the access_token field of a token response can take ("" = absent)
AccessTokens == {"tok", "gho_16C7"}

\* values the error field of a token response can take ("" = absent)
ErrorCodes == {"authorization_pending", "slow_down", "expired_token",
               "access_denied", "unsupported_grant_type", "device_flow_disabled"}

\* response.data when the body of the answer is the JSON value null
NullBody == [null |-> TRUE]

\* response.data of a token request: an object, or null.  An error object
\* may carry a token field as well; two different tokens are told apart
\* on success.
TokenResponses ==
    [error : ErrorCodes, access_token : {"", "tok"}]
        \cup [error : {""}, access_token : AccessTokens \cup {""}]
        \cup {NullBody}

\* the TypeError raised by reading a property of null
NullReadError(property) ==
    "Cannot read properties of null (reading '" \o property \o "')"

\* what axios.post throws on a network failure or a non-2xx status
TransportErrors == {"Network Error", "Request failed with status code 503"}

NoData == [error |-> "", access_token |-> ""]

Pending == [state |-> "pending", value |-> NoData, error |-> ""]

\* a promise of a call that was not made
NoPromise == [state |-> "none", error |-> ""]

\* the promise of an authenticate() call that was not made
NoAuthResult == [state |-> "none", value |-> "", error |-> ""]

\* no DeviceCodeResponse yet
NoDeviceAuth == [device_code |-> "", interval |-> 0, expires_in |-> 0]

\* what one run of poll() does after its request was answered
SetTimeout(ms) == [kind |-> "timer", delay |-> ms, error |-> "", value |-> NoData]
Reject(msg) == [kind |-> "reject", delay |-> 0, error |-> msg, value |-> NoData]
Resolve(data) == [kind |-> "resolve", delay |-> 0, error |-> "", value |-> data]

\* slip: the delay is handed to setTimeout in seconds
OnAuthorizationPending_Seconds(data, iv) == SetTimeout(iv)

\* data.error === "authorization_pending"
OnAuthorizationPending(data, iv) == SetTimeout(iv * MsPerSecond)

\* slip: slow_down handled like authorization_pending
OnSlowDown_NoIncrement(data, iv) == SetTimeout(iv * MsPerSecond)

\* data.error === "slow_down": the delay is computed from the unchanged
\* interval argument; the argument itself is not assigned
OnSlowDown(data, iv) == SetTimeout((iv + SlowDownIncrement) * MsPerSecond)

\* slip: expired_token not treated as terminal
OnExpiredToken_KeepsPolling(data, iv) == SetTimeout(iv * MsPerSecond)

\* data.error === "expired_token"
OnExpiredToken(data, iv) == Reject("Device code expired. Please try again.")

\* slip: access_denied falls through to the generic branch
OnAccessDenied_Generic(data, iv) == Reject("OAuth error: " \o data.error)

\* data.error === "access_denied"
OnAccessDenied(data, iv) == Reject("Access denied by user.")

\* slip: the whole response is put into the message
OnOtherError_WholeResponse(data, iv) ==
    Reject("OAuth error: " \o data.error \o " " \o data.access_token)

\* any other truthy data.error
OnOtherError(data, iv) == Reject("OAuth error: " \o data.error)

\* slip: the token response is not recognised
OnAccessToken_KeepsPolling(data, iv) == SetTimeout(iv * MsPerSecond)

\* no error, truthy data.access_token: resolve(data)
OnAccessToken(data, iv) == Resolve(data)

\* neither error nor token
OnUnexpected(data, iv) == SetTimeout(iv * MsPerSecond)

\* slip: a failed request is retried after the interval
OnRequestError_Retries(err, iv) == SetTimeout(iv * MsPerSecond)

\* catch (error) { reject(error) }
OnRequestError(err, iv) == Reject(err)

\* slip: the access token is looked at before the error field
HandleResponse_TokenFirst(data, iv) ==
    IF data = NullBody THEN OnRequestError(NullReadError("access_token"), iv)
    ELSE IF Truthy(data.access_token) THEN OnAccessToken(data, iv)
    ELSE IF Truthy(data.error)
    THEN IF data.error = "authorization_pending" THEN OnAuthorizationPending(data, iv)
         ELSE IF data.error = "slow_down" THEN OnSlowDown(data, iv)
         ELSE IF data.error = "expired_token" THEN OnExpiredToken(data, iv)
         ELSE IF data.error = "access_denied" THEN OnAccessDenied(data, iv)
         ELSE OnOtherError(data, iv)
    ELSE OnUnexpected(data, iv)

\* the body of poll() after const data = response.data, inside the try:
\* reading data.error of a null body throws, and the catch block receives
\* the TypeError as it receives an error of the request
HandleResponse(data, iv) ==
    IF data = NullBody THEN OnRequestError(NullReadError("error"), iv)
    ELSE IF Truthy(data.error)
    THEN IF data.error = "authorization_pending" THEN OnAuthorizationPending(data, iv)
         ELSE IF data.error = "slow_down" THEN OnSlowDown(data, iv)
         ELSE IF data.error = "expired_token" THEN OnExpiredToken(data, iv)
         ELSE IF data.error = "access_denied" THEN OnAccessDenied(data, iv)
         ELSE OnOtherError(data, iv)
    ELSE IF Truthy(data.access_token) THEN OnAccessToken(data, iv)
    ELSE OnUnexpected(data, iv)

\* the body of one token request
TokenRequest(dc) ==
    [device_code |-> dc,
     grant_type |-> "urn:ietf:params:oauth:grant-type:device_code"]

\* slip: setInterval instead of setTimeout, the timer stays armed
TimersAfterFiring_Repeating(n) == n

\* a setTimeout timer fires once
TimersAfterFiring(n) == n - 1

\* slip: the interval is kept in one field that every call writes
IntervalOf_Shared(a) == IF interval["a2"] # 0 THEN interval["a2"] ELSE interval[a]

\* the interval parameter of the call's own closure
IntervalOf(a) == interval[a]

\* slip: the first poll is scheduled after the interval instead of run
StartPolling_WaitsFirst(a, dc, iv) ==
    /\ phase' = [phase EXCEPT ![a] = "Waiting"]
    /\ interval' = [interval EXCEPT ![a] = iv]
    /\ deviceCode' = [deviceCode EXCEPT ![a] = dc]
    /\ waits' = [waits EXCEPT ![a] = <<iv * MsPerSecond>>]
    /\ timers' = [timers EXCEPT ![a] = @ + 1]
    /\ UNCHANGED <<posts, responses, result, thrown, inflight>>

\* the promise is created and poll() runs up to its first await, i.e. the
\* first token request is issued
StartPolling(a, dc, iv) ==
    /\ phase' = [phase EXCEPT ![a] = "Requesting"]
    /\ interval' = [interval EXCEPT ![a] = iv]
    /\ deviceCode' = [deviceCode EXCEPT ![a] = dc]
    /\ posts' = [posts EXCEPT ![a] = <<TokenRequest(dc)>>]
    /\ inflight' = [inflight EXCEPT ![a] = @ + 1]
    /\ UNCHANGED <<waits, responses, result, thrown, timers>>

\* pollForAccessToken(dc, iv) is called on its own, with arguments of the
\* caller's choosing
PollForAccessToken(a, dc, iv) ==
    /\ phase[a] = "NotStarted"
    /\ codeRequest[a].state = "none"
    /\ StartPolling(a, dc, iv)
    /\ UNCHANGED <<authVars, upVars, pureVars, encVars, cliVars>>

\* slip: no return after setTimeout, poll() falls through to the trailing
\* setTimeout and arms a second timer
Carry_NoReturn(a, eff) ==
    IF eff.kind = "timer"
    THEN /\ waits' = [waits EXCEPT ![a] = Append(@, eff.delay)]
         /\ timers' = [timers EXCEPT ![a] = @ + 2]
         /\ phase' = [phase EXCEPT ![a] = "Waiting"]
         /\ UNCHANGED result
    ELSE IF eff.kind = "resolve"
    THEN /\ result' = [result EXCEPT ![a] =
                [state |-> "fulfilled", value |-> eff.value, error |-> ""]]
         /\ phase' = [phase EXCEPT ![a] = "Settled"]
         /\ UNCHANGED <<waits, timers>>
    ELSE /\ result' = [result EXCEPT ![a] =
                [state |-> "rejected", value |-> NoData, error |-> eff.error]]
         /\ phase' = [phase EXCEPT ![a] = "Settled"]
         /\ UNCHANGED <<waits, timers>>

\* what poll() did with the outcome of its request is carried out
Carry(a, eff) ==
    IF eff.kind = "timer"
    THEN /\ waits' = [waits EXCEPT ![a] = Append(@, eff.delay)]
         /\ timers' = [timers EXCEPT ![a] = @ + 1]
         /\ phase' = [phase EXCEPT ![a] = "Waiting"]
         /\ UNCHANGED result
    ELSE IF eff.kind = "resolve"
    THEN /\ result' = [result EXCEPT ![a] =
                [state |-> "fulfilled", value |-> eff.value, error |-> ""]]
         /\ phase' = [phase EXCEPT ![a] = "Settled"]
         /\ UNCHANGED <<waits, timers>>
    ELSE /\ result' = [result EXCEPT ![a] =
                [state |-> "rejected", value |-> NoData, error |-> eff.error]]
         /\ phase' = [phase EXCEPT ![a] = "Settled"]
         /\ UNCHANGED <<waits, timers>>

\* the token request in flight is answered with response.data = data
TokenResponse(a, data) ==
    /\ inflight[a] > 0
    /\ inflight' = [inflight EXCEPT ![a] = @ - 1]
    /\ responses' = [responses EXCEPT ![a] = Append(@, data)]
    /\ Carry(a, HandleResponse(data, IntervalOf(a)))
    /\ UNCHANGED <<interval, deviceCode, posts, thrown, authVars, upVars, pureVars, encVars, cliVars>>

\* the token request in flight throws
TokenRequestThrows(a, err) ==
    /\ inflight[a] > 0
    /\ inflight' = [inflight EXCEPT ![a] = @ - 1]
    /\ thrown' = [thrown EXCEPT ![a] = Append(@, err)]
    /\ Carry(a, OnRequestError(err, IntervalOf(a)))
    /\ UNCHANGED <<interval, deviceCode, posts, responses, authVars, upVars, pureVars, encVars, cliVars>>

\* slip: the timer's callback does not run poll
TimerFires_Lost(a) ==
    /\ timers[a] > 0
    /\ timers' = [timers EXCEPT ![a] = @ - 1]
    /\ UNCHANGED <<phase, posts, inflight, interval, deviceCode, waits, responses,
                   result, thrown, authVars, upVars, pureVars, encVars, cliVars>>

\* an armed timer fires: poll() runs again and issues the next request
TimerFires(a) ==
    /\ timers[a] > 0
    /\ Len(posts[a]) < MaxPolls
    /\ timers' = [timers EXCEPT ![a] = TimersAfterFiring(@)]
    /\ posts' = [posts EXCEPT ![a] = Append(@, TokenRequest(deviceCode[a]))]
    /\ inflight' = [inflight EXCEPT ![a] = @ + 1]
    /\ phase' = [phase EXCEPT ![a] = "Requesting"]
    /\ UNCHANGED <<interval, deviceCode, waits, responses, result, thrown,
                   authVars, upVars, pureVars, encVars, cliVars>>

\* the response is one after which poll() sets a timer: an object that
\* carries neither a terminal error code nor a token
NonTerminal(data) ==
    /\ data # NullBody
    /\ \/ data.error \in {"authorization_pending", "slow_down"}
       \/ data.error = "" /\ data.access_token = ""

\* a token request is answered by a server that stops answering with
\* non-terminal responses by the MaxPolls-th request at the latest
ServerAnswers(a, data) ==
    /\ Len(posts[a]) = MaxPolls => ~NonTerminal(data)
    /\ TokenResponse(a, data)

\* the caller stops waiting for the promise while a timer is armed; the
\* call offers no handle to stop the timer or the loop
Abandon(a) ==
    /\ phase[a] = "Waiting"
    /\ abandonedAt[a] = <<>>
    /\ abandonedAt' = [abandonedAt EXCEPT ![a] = <<Len(posts[a])>>]
    /\ UNCHANGED <<callbackResult, startVars, pollVars, authVars, upVars, pureVars,
                   encVars>>

----------------------------------------------------------------------------
(* GitHubOAuthDevice.requestDeviceCode and authenticate, and the caller of
   cli.ts that runs the two steps itself *)

\* response.data of the device code request
DeviceCodeResponses ==
    [device_code : DeviceCodes, interval : Intervals, expires_in : ExpiresIns]

\* requestDeviceCode() is called by a caller that runs the steps itself
\* (SecretManagerCLI.authenticateWithOAuth): the request is issued
RequestDeviceCode(a) ==
    /\ phase[a] = "NotStarted"
    /\ codeRequest[a].state = "none"
    /\ codeRequest' = [codeRequest EXCEPT ![a] = [state |-> "pending", error |-> ""]]
    /\ via' = [via EXCEPT ![a] = "direct"]
    /\ UNCHANGED <<deviceAuth, authResult, pollVars, upVars, pureVars, encVars, cliVars>>

\* authenticate() is called: it calls requestDeviceCode()
Authenticate(a) ==
    /\ phase[a] = "NotStarted"
    /\ codeRequest[a].state = "none"
    /\ codeRequest' = [codeRequest EXCEPT ![a] = [state |-> "pending", error |-> ""]]
    /\ via' = [via EXCEPT ![a] = "authenticate"]
    /\ authResult' = [authResult EXCEPT ![a] =
            [state |-> "pending", value |-> "", error |-> ""]]
    /\ UNCHANGED <<deviceAuth, pollVars, upVars, pureVars, encVars, cliVars>>

\* the device code request is answered: requestDeviceCode returns response.data
DeviceCodeResponse(a, resp) ==
    /\ codeRequest[a].state = "pending"
    /\ codeRequest' = [codeRequest EXCEPT ![a] = [state |-> "fulfilled", error |-> ""]]
    /\ deviceAuth' = [deviceAuth EXCEPT ![a] = resp]
    /\ phase' = [phase EXCEPT ![a] = "CodeRequested"]
    /\ UNCHANGED <<interval, deviceCode, posts, waits, responses, result, thrown,
                   inflight, timers, via, authResult, upVars, pureVars, encVars, cliVars>>

\* the device code request throws: requestDeviceCode rejects
DeviceCodeFails(a, err) ==
    /\ codeRequest[a].state = "pending"
    /\ codeRequest' = [codeRequest EXCEPT ![a] = [state |-> "rejected", error |-> err]]
    /\ UNCHANGED <<deviceAuth, via, authResult, pollVars, upVars, pureVars, encVars, cliVars>>

\* slip: expires_in is handed over as the interval
PollArguments_ExpiresIn(auth) ==
    [deviceCode |-> auth.device_code, interval |-> auth.expires_in]

\* the arguments both callers hand to pollForAccessToken
PollArguments(auth) ==
    [deviceCode |-> auth.device_code, interval |-> auth.interval]

\* authenticate() continues after requestDeviceCode and calls
\* pollForAccessToken
AuthenticatePolls(a) ==
    /\ via[a] = "authenticate"
    /\ phase[a] = "CodeRequested"
    /\ StartPolling(a, PollArguments(deviceAuth[a]).deviceCode,
                       PollArguments(deviceAuth[a]).interval)
    /\ UNCHANGED <<authVars, upVars, pureVars, encVars, cliVars>>

\* authenticateWithOAuth continues after requestDeviceCode and calls
\* pollForAccessToken
CallerPolls(a) ==
    /\ via[a] = "direct"
    /\ phase[a] = "CodeRequested"
    /\ StartPolling(a, deviceAuth[a].device_code, deviceAuth[a].interval)
    /\ UNCHANGED <<authVars, upVars, pureVars, encVars, cliVars>>

\* authenticate() settles: a rejection of either step propagates, a
\* fulfilled poll yields tokenData.access_token
AuthenticateReturns(a) ==
    /\ via[a] = "authenticate"
    /\ authResult[a].state = "pending"
    /\ \/ /\ codeRequest[a].state = "rejected"
          /\ authResult' = [authResult EXCEPT ![a] =
                [state |-> "rejected", value |-> "", error |-> codeRequest[a].error]]
       \/ /\ result[a].state = "rejected"
          /\ authResult' = [authResult EXCEPT ![a] =
                [state |-> "rejected", value |-> "", error |-> result[a].error]]
       \/ /\ result[a].state = "fulfilled"
          /\ authResult' = [authResult EXCEPT ![a] =
                [state |-> "fulfilled", value |-> result[a].value.access_token,
                 error |-> ""]]
    /\ UNCHANGED <<codeRequest, deviceAuth, via, pollVars, upVars, pureVars, encVars, cliVars>>

----------------------------------------------------------------------------
(* libsodium as used by GitHubService.encryptSecret *)

CharAt(s, i) == SubSeq(s, i, i)

Base64Alphabet == "ABCDEFGHIJKLMNOPQRSTUVWXYZabcdefghijklmnopqrstuvwxyz0123456789+/"

\* printable ASCII: codes 32..95 and 97..126
AsciiLow == " !\"#$%&'()*+,-./0123456789:;<=>?@ABCDEFGHIJKLMNOPQRSTUVWXYZ[\\]^_"
AsciiHigh == "abcdefghijklmnopqrstuvwxyz{|}~"

IsBase64Char(c) == \E k \in 1..Len(Base64Alphabet) : CharAt(Base64Alphabet, k) = c

\* the 6-bit value of a base64 character
Base64Value(c) == (CHOOSE k \in 1..Len(Base64Alphabet) : CharAt(Base64Alphabet, k) = c) - 1

\* number of trailing '=' of s (at most 2 are looked at)
PaddingLen(s) ==
    IF Len(s) >= 2 /\ CharAt(s, Len(s)) = "=" /\ CharAt(s, Len(s) - 1) = "=" THEN 2
    ELSE IF Len(s) >= 1 /\ CharAt(s, Len(s)) = "=" THEN 1
    ELSE 0

\* sodium_base642bin, variant ORIGINAL: alphabet characters, then exactly
\* the padding the leftover bits call for, leftover bits zero, nothing after
ValidBase64(s) ==
    LET n == Len(s) - PaddingLen(s) IN
    /\ Len(s) % 4 = 0
    /\ \A i \in 1..n : IsBase64Char(CharAt(s, i))
    /\ PaddingLen(s) = 1 => Base64Value(CharAt(s, n)) % 4 = 0
    /\ PaddingLen(s) = 2 => Base64Value(CharAt(s, n)) % 16 = 0

\* the bytes a valid base64 string decodes to
Base64Bytes(s) ==
    LET n == Len(s) - PaddingLen(s)
        v(i) == IF i <= n THEN Base64Value(CharAt(s, i)) ELSE 0
        nbytes == (n * 6) \div 8
        byte(j) ==
            LET g == (j - 1) \div 3
                r == (j - 1) % 3
                q == v(4 * g + 1) * 262144 + v(4 * g + 2) * 4096
                        + v(4 * g + 3) * 64 + v(4 * g + 4)
            IN IF r = 0 THEN q \div 65536
               ELSE IF r = 1 THEN (q \div 256) % 256
               ELSE q % 256
    IN [j \in 1..nbytes |-> byte(j)]

Ok(v) == [ok |-> TRUE, value |-> v, error |-> ""]
Throw(msg) == [ok |-> FALSE, value |-> <<>>, error |-> msg]

\* answers of GET /repos/{owner}/{repo}/actions/secrets/public-key
KeyRecords ==
    {[key_id |-> "568250167242549743",
      key |-> "gzbVVfzAkWh27UlcW6buc+96aEg58a6/TAuqeT1RssI="],
     [key_id |-> "3380204578043523366",
      key |-> "b/BFvvOHZ+Y/jLaNLkw/gKCu0dwsXYyZtx2yaTvPtqo="],
     [key_id |-> "1234", key |-> "not-base64!!"],
     [key_id |-> "5678", key |-> "c2hvcnQ="]}

\* the decoding of every key string a key record can carry, computed once
Base64Decoded ==
    [s \in {r.key : r \in KeyRecords} |->
        IF ValidBase64(s) THEN Ok(Base64Bytes(s)) ELSE Throw("invalid input")]

\* sodium.from_base64(publicKey, base64_variants.ORIGINAL)
FromBase64(s) == Base64Decoded[s]

\* the code of a printable ASCII character
CharCode(c) ==
    IF \E k \in 1..Len(AsciiLow) : CharAt(AsciiLow, k) = c
    THEN 31 + (CHOOSE k \in 1..Len(AsciiLow) : CharAt(AsciiLow, k) = c)
    ELSE 96 + (CHOOSE k \in 1..Len(AsciiHigh) : CharAt(AsciiHigh, k) = c)

SecretValues == {"s3cr3t", "p@ss w0rd"}

\* the UTF-8 bytes (ASCII here) of every secret value, computed once
Utf8Bytes ==
    [s \in SecretValues |-> [i \in 1..Len(s) |-> CharCode(CharAt(s, i))]]

\* sodium.from_string(secretValue)
FromString(s) == Utf8Bytes[s]

\* crypto_box_PUBLICKEYBYTES
PublicKeyBytes == 32

\* ephemeral key pairs crypto_box_seal may draw
Ephemerals == {"eph1", "eph2"}

\* sodium.crypto_box_seal(binsec, binkey): the sealed box is kept as a
\* term naming the ephemeral key, the recipient key and the message; only
\* the holder of the recipient's private key can open it
CryptoBoxSeal(binsec, binkey, eph) ==
    IF Len(binkey) = PublicKeyBytes
    THEN Ok(<<"crypto_box_seal", eph, binkey, binsec>>)
    ELSE Throw("invalid publicKey length")

\* sodium.to_base64(bytes, base64_variants.ORIGINAL) of a byte string that
\* is itself a term
ToBase64(bytes) == <<"base64", bytes>>

----------------------------------------------------------------------------
(* GitHubService: encryptSecret, createOrUpdateRepoSecret, batchCreateSecrets *)

SecretNames == {"API_KEY", "DB_PASS", "TOKEN"}

SecretEntry == [name : SecretNames, value : SecretValues]

\* Object.entries(secrets) of an object of at most MaxSecrets properties:
\* the names are distinct and, none of them being an integer index, in
\* insertion order
SecretLists ==
    UNION {{l \in [1..n -> SecretEntry] :
                \A i, j \in 1..n : i # j => l[i].name # l[j].name}
           : n \in 0..MaxSecrets}

\* messages of the errors octokit.request throws
ApiErrors == {"Not Found", "Bad credentials"}

NoKey == [key_id |-> "", key |-> ""]

\* slip: the value is encoded for transport but never sealed
EncryptSecret_Unsealed(secretValue, publicKey, eph) ==
    Ok(ToBase64(FromString(secretValue)))

\* slip: a try/catch around the sealing falls back to the encoded value
EncryptSecret_FallsBack(secretValue, publicKey, eph) ==
    LET binkey == FromBase64(publicKey) IN
    IF ~binkey.ok THEN Ok(ToBase64(FromString(secretValue)))
    ELSE LET encBytes == CryptoBoxSeal(FromString(secretValue), binkey.value, eph) IN
         IF ~encBytes.ok THEN Ok(ToBase64(FromString(secretValue)))
         ELSE Ok(ToBase64(encBytes.value))

\* encryptSecret(secretValue, publicKey), once sodium.ready is fulfilled
EncryptSecret(secretValue, publicKey, eph) ==
    LET binkey == FromBase64(publicKey) IN
    IF ~binkey.ok THEN binkey
    ELSE LET encBytes == CryptoBoxSeal(FromString(secretValue), binkey.value, eph) IN
         IF ~encBytes.ok THEN encBytes
         ELSE Ok(ToBase64(encBytes.value))

\* the parameters of PUT /repos/{owner}/{repo}/actions/secrets/{secret_name}
PutRequest(secretName, encrypted, keyData) ==
    [secret_name |-> secretName,
     encrypted_value |-> encrypted,
     key_id |-> keyData.key_id]

\* slip: the public key fetched for the first secret is kept for the rest
StartCall_CachedKey(i) ==
    /\ idx' = i
    /\ encryptedValue' = <<>>
    /\ IF publicKeyData # NoKey
       THEN upPhase' = "encrypting" /\ UNCHANGED publicKeyData
       ELSE upPhase' = "fetching" /\ publicKeyData' = NoKey

\* createOrUpdateRepoSecret starts: locals are fresh and the public key
\* request is issued
StartCall(i) ==
    /\ idx' = i
    /\ publicKeyData' = NoKey
    /\ encryptedValue' = <<>>
    /\ upPhase' = "fetching"

\* batchCreateSecrets moves on after entry idx, or returns
NextEntry ==
    IF idx < Len(secrets)
    THEN /\ StartCall(idx + 1)
         /\ UNCHANGED upResult
    ELSE /\ upPhase' = "done"
         /\ upResult' = [state |-> "fulfilled", error |-> ""]
         /\ UNCHANGED <<idx, publicKeyData, encryptedValue>>

\* slip: no try/catch in the loop, the first failure ends the batch
CallFails_EndsBatch(msg) ==
    /\ upPhase' = "done"
    /\ upResult' = [state |-> "rejected", error |-> msg]
    /\ UNCHANGED <<idx, publicKeyData, encryptedValue, success, failed>>

\* the current createOrUpdateRepoSecret call rejects with message msg
CallFails(msg) ==
    IF upMode = "single"
    THEN /\ upPhase' = "done"
         /\ upResult' = [state |-> "rejected", error |-> msg]
         /\ UNCHANGED <<idx, publicKeyData, encryptedValue, success, failed>>
    ELSE /\ failed' = Append(failed, [name |-> secrets[idx].name, error |-> msg])
         /\ UNCHANGED success
         /\ NextEntry

\* the current createOrUpdateRepoSecret call resolves
CallSucceeds ==
    IF upMode = "single"
    THEN /\ upPhase' = "done"
         /\ upResult' = [state |-> "fulfilled", error |-> ""]
         /\ UNCHANGED <<idx, publicKeyData, encryptedValue, success, failed>>
    ELSE /\ success' = Append(success, secrets[idx].name)
         /\ UNCHANGED failed
         /\ NextEntry

\* createOrUpdateRepoSecret(owner, repo, name, value) called directly
CreateOrUpdateRepoSecret(entry) ==
    /\ upMode = "none"
    /\ upMode' = "single"
    /\ secrets' = <<entry>>
    /\ StartCall(1)
    /\ upResult' = [state |-> "pending", error |-> ""]
    /\ UNCHANGED <<keyLog, puts, success, failed, sodiumReady, putsDone, pollVars, authVars, pureVars, encVars, cliVars>>

\* batchCreateSecrets(owner, repo, secrets) called; list = Object.entries
BatchCreateSecrets(list) ==
    /\ upMode = "none"
    /\ upMode' = "batch"
    /\ secrets' = list
    /\ IF Len(list) > 0
       THEN /\ StartCall(1)
            /\ upResult' = [state |-> "pending", error |-> ""]
       ELSE /\ upPhase' = "done"
            /\ upResult' = [state |-> "fulfilled", error |-> ""]
            /\ UNCHANGED <<idx, publicKeyData, encryptedValue>>
    /\ UNCHANGED <<keyLog, puts, success, failed, sodiumReady, putsDone, pollVars, authVars, pureVars, encVars, cliVars>>

\* getRepoPublicKey resolves with rec; encryptSecret is entered and awaits
\* sodium.ready
PublicKeyResponse(rec) ==
    /\ upPhase = "fetching"
    /\ publicKeyData' = rec
    /\ keyLog' = Append(keyLog, [ok |-> TRUE, data |-> rec])
    /\ upPhase' = "encrypting"
    /\ UNCHANGED <<upMode, secrets, idx, encryptedValue, puts, success, failed,
                   upResult, sodiumReady, putsDone, pollVars, authVars, pureVars, encVars, cliVars>>

\* getRepoPublicKey rejects
PublicKeyFails(msg) ==
    /\ upPhase = "fetching"
    /\ keyLog' = Append(keyLog, [ok |-> FALSE, data |-> NoKey])
    /\ CallFails(msg)
    /\ UNCHANGED <<upMode, secrets, puts, sodiumReady, putsDone, pollVars, authVars, pureVars, encVars, cliVars>>

\* the library finishes its one-time initialisation
SodiumBecomesReady ==
    /\ ~sodiumReady
    /\ sodiumReady' = TRUE
    /\ UNCHANGED <<upPhase, upMode, secrets, idx, publicKeyData, encryptedValue,
                   keyLog, puts, putsDone, success, failed, upResult, pollVars, authVars, pureVars, encVars, cliVars>>

\* slip: sodium.ready is not awaited
ReadyBarrier_Skipped == TRUE

\* await sodium.ready lets the call continue once the promise is fulfilled
ReadyBarrier == sodiumReady

\* encryptSecret runs past `await sodium.ready`; when it returns, the PUT
\* request is issued, when it throws, createOrUpdateRepoSecret rejects
Encrypt(eph) ==
    /\ upPhase = "encrypting"
    /\ ReadyBarrier
    /\ LET enc == EncryptSecret(secrets[idx].value, publicKeyData.key, eph) IN
        IF enc.ok
        THEN /\ encryptedValue' = enc.value
             /\ puts' = Append(puts,
                    PutRequest(secrets[idx].name, enc.value, publicKeyData))
             /\ upPhase' = "putting"
             /\ UNCHANGED <<idx, publicKeyData, success, failed, upResult>>
        ELSE /\ CallFails(enc.error)
             /\ UNCHANGED puts
    /\ UNCHANGED <<upMode, secrets, keyLog, sodiumReady, putsDone, pollVars, authVars, pureVars, encVars, cliVars>>

\* the PUT request is answered 201/204
PutResponse ==
    /\ upPhase = "putting"
    /\ putsDone' = Append(putsDone, puts[Len(puts)].secret_name)
    /\ CallSucceeds
    /\ UNCHANGED <<upMode, secrets, keyLog, puts, sodiumReady, pollVars, authVars, pureVars, encVars, cliVars>>

\* the PUT request fails
PutFails(msg) ==
    /\ upPhase = "putting"
    /\ CallFails(msg)
    /\ UNCHANGED <<upMode, secrets, keyLog, puts, sodiumReady, putsDone, pollVars, authVars, pureVars, encVars, cliVars>>

----------------------------------------------------------------------------
(* encryptSecret calls made concurrently *)

EncCalls == {"e1", "e2"}

NoEncArgs == [secretValue |-> "", publicKey |-> ""]

\* encryptSecret(secretValue, publicKey) is called and runs up to
\* await sodium.ready
CallEncryptSecret(e, secretValue, publicKey) ==
    /\ encPhase[e] = "idle"
    /\ encPhase' = [encPhase EXCEPT ![e] = "awaiting"]
    /\ encArgs' = [encArgs EXCEPT ![e] =
            [secretValue |-> secretValue, publicKey |-> publicKey]]
    /\ encWaited' = [encWaited EXCEPT ![e] = ~sodiumReady]
    /\ UNCHANGED <<encOut, sodiumInits, pollVars, authVars, upVars, pureVars, cliVars>>

\* the call continues after the await and runs the primitives
EncryptSecretResumes(e, eph) ==
    /\ encPhase[e] = "awaiting"
    /\ ReadyBarrier
    /\ LET enc == EncryptSecret(encArgs[e].secretValue, encArgs[e].publicKey, eph) IN
        /\ encOut' = [encOut EXCEPT ![e] = enc]
        /\ encPhase' = [encPhase EXCEPT ![e] = IF enc.ok THEN "returned" ELSE "thrown"]
    /\ UNCHANGED <<encArgs, encWaited, sodiumInits, pollVars, authVars, upVars, pureVars, cliVars>>

\* encryptSecret calls in any interleaving with the library's initialisation
NextEncrypt ==
    \/ \E e \in EncCalls, v \in SecretValues, r \in KeyRecords :
            CallEncryptSecret(e, v, r.key)
    \/ SodiumBecomesReady
    \/ \E e \in EncCalls, eph \in Ephemerals : EncryptSecretResumes(e, eph)

----------------------------------------------------------------------------
(* env-parser: validateSecretName and filterValidSecrets *)

UpperCase == "ABCDEFGHIJKLMNOPQRSTUVWXYZ"
LowerCase == "abcdefghijklmnopqrstuvwxyz"
Digits == "0123456789"

\* c is one of the characters of the string class
InClass(c, class) == \E k \in 1..Len(class) : CharAt(class, k) = c

\* [A-Za-z_]
NameStart == UpperCase \o LowerCase \o "_"

\* [A-Za-z0-9_]
NameChar == NameStart \o Digits

\* s starts with p (the lookahead's literal, matched at position 1)
HasPrefix(s, p) == Len(s) >= Len(p) /\ SubSeq(s, 1, Len(p)) = p

\* the position after the longest run of class characters from position i
RECURSIVE StarEnd(_, _, _)
StarEnd(s, i, class) ==
    IF i <= Len(s) /\ InClass(CharAt(s, i), class)
    THEN StarEnd(s, i + 1, class)
    ELSE i

\* slip: the pattern without its negative lookahead
ValidateSecretName_NoLookahead(name) ==
    /\ Len(name) >= 1
    /\ InClass(CharAt(name, 1), NameStart)
    /\ StarEnd(name, 2, NameChar) = Len(name) + 1

\* /^(?!GITHUB_)[A-Za-z_][A-Za-z0-9_]*$/.test(name): the lookahead at the
\* start, one NameStart character, NameChar characters up to the end of input
ValidateSecretName(name) ==
    /\ ~HasPrefix(name, "GITHUB_")
    /\ Len(name) >= 1
    /\ InClass(CharAt(name, 1), NameStart)
    /\ StarEnd(name, 2, NameChar) = Len(name) + 1

\* the numeric value of a string of decimal digits
DigitValue(c) == (CHOOSE k \in 1..Len(Digits) : CharAt(Digits, k) = c) - 1

RECURSIVE ToNumber(_)
ToNumber(s) ==
    IF Len(s) = 0 THEN 0
    ELSE 10 * ToNumber(SubSeq(s, 1, Len(s) - 1)) + DigitValue(CharAt(s, Len(s)))

\* the property key is an integer index: the canonical decimal form of a
\* non-negative integer (the keys here have at most 9 digits, far below the
\* largest index)
IsIntegerIndex(key) ==
    /\ Len(key) \in 1..9
    /\ \A i \in 1..Len(key) : InClass(CharAt(key, i), Digits)
    /\ Len(key) > 1 => CharAt(key, 1) # "0"

\* the entries sorted by ascending numeric key
RECURSIVE Ascending(_)
Ascending(q) ==
    IF q = <<>> THEN <<>>
    ELSE LET m == CHOOSE i \in 1..Len(q) :
                    \A j \in 1..Len(q) : ToNumber(q[i].name) <= ToNumber(q[j].name)
         IN <<q[m]>> \o Ascending(SubSeq(q, 1, m - 1) \o SubSeq(q, m + 1, Len(q)))

IsIndexEntry(e) == IsIntegerIndex(e.name)
IsStringEntry(e) == ~IsIntegerIndex(e.name)

\* Object.entries(obj) of an object whose properties were written in the
\* order of obj: integer indices in ascending numeric order, then the other
\* keys in the order they were written
ObjectEntries(obj) ==
    Ascending(SelectSeq(obj, IsIndexEntry)) \o SelectSeq(obj, IsStringEntry)

\* obj[name] = value on a plain object, kept as the sequence of its
\* property writes: the name __proto__ reaches the setter inherited from
\* Object.prototype, which ignores a string and creates no property; any
\* other name is created, or overwritten in place
SetProperty(obj, name, value) ==
    IF name = "__proto__" THEN obj
    ELSE IF \E i \in 1..Len(obj) : obj[i].name = name
    THEN [i \in 1..Len(obj) |->
            IF obj[i].name = name THEN [name |-> name, value |-> value] ELSE obj[i]]
    ELSE Append(obj, [name |-> name, value |-> value])

\* the for...of loop of filterValidSecrets over its entries
RECURSIVE FilterLoop(_, _)
FilterLoop(entries, acc) ==
    IF entries = <<>> THEN acc
    ELSE LET e == Head(entries) IN
         IF ValidateSecretName(e.name)
         THEN FilterLoop(Tail(entries),
                         [acc EXCEPT !.valid = SetProperty(@, e.name, e.value)])
         ELSE FilterLoop(Tail(entries), [acc EXCEPT !.invalid = Append(@, e.name)])

\* filterValidSecrets(secrets): valid is kept as the properties written to
\* it, in order
FilterValidSecrets(obj) ==
    FilterLoop(ObjectEntries(obj), [valid |-> <<>>, invalid |-> <<>>])

\* the characters the free part of a candidate name is drawn from
NameAlphabet == {"A", "z", "0", "_", "-", " "}

RECURSIVE StringsUpTo(_)
StringsUpTo(n) ==
    IF n = 0 THEN {""}
    ELSE StringsUpTo(n - 1)
            \cup {s \o c : s \in StringsUpTo(n - 1), c \in NameAlphabet}

NamePrefixes == {"", "GITHUB", "GITHUB_", "github_", "GITHUb_", "GITHU_", "_", "1"}

\* candidate names: a prefix followed by a free part, and the names the
\* documentation discusses
NameInputs ==
    {p \o t : p \in NamePrefixes, t \in StringsUpTo(MaxNameLen)}
        \cup {"GITHUB_FOO", "1ABC", "bad-name", "github_foo", "API_KEY", "__proto__"}

\* own property names of the input object (an own __proto__ property is
\* what JSON.parse creates for that key)
PropertyKeys ==
    {"GOOD", "GITHUB_BAD", "1BAD", "bad-name", "2", "10", "9", "007", "__proto__"}
PropertyValues == {"1", "2"}

\* objects of at most MaxProps properties, as the sequence of their
\* property writes (distinct keys)
ObjectInputs ==
    UNION {{o \in [1..n -> [name : PropertyKeys, value : PropertyValues]] :
                \A i, j \in 1..n : i # j => o[i].name # o[j].name}
           : n \in 0..MaxProps}

\* what the validate callback of an input prompt returns: true, or the
\* message shown to the user
Accepted == [ok |-> TRUE, message |-> ""]
Refused(msg) == [ok |-> FALSE, message |-> msg]

\* slip: the callback without its GITHUB_ test
ValidateCallback_NoPrefixTest(value) ==
    IF ~Truthy(value) THEN Refused("Secret name is required")
    ELSE IF ~(/\ InClass(CharAt(value, 1), NameStart)
              /\ StarEnd(value, 2, NameChar) = Len(value) + 1)
    THEN Refused("Invalid name. Use only letters, numbers, and underscores. Cannot start with a number.")
    ELSE Accepted

\* the validate callback of addSingleSecret's name prompt: the empty
\* string, then /^[A-Za-z_][A-Za-z0-9_]*$/.test(value), then
\* value.startsWith("GITHUB_")
ValidateCallback(value) ==
    IF ~Truthy(value) THEN Refused("Secret name is required")
    ELSE IF ~(/\ InClass(CharAt(value, 1), NameStart)
              /\ StarEnd(value, 2, NameChar) = Len(value) + 1)
    THEN Refused("Invalid name. Use only letters, numbers, and underscores. Cannot start with a number.")
    ELSE IF HasPrefix(value, "GITHUB_")
    THEN Refused("Secret names cannot start with GITHUB_")
    ELSE Accepted

\* the prompt runs its validate callback on the typed name nameArg
CallValidateCallback ==
    /\ pureCall = "nameCheck"
    /\ callbackResult = <<>>
    /\ callbackResult' = <<ValidateCallback(nameArg)>>
    /\ UNCHANGED <<abandonedAt, startVars, pollVars, authVars, upVars, pureVars,
                   encVars>>

\* validateSecretName(nameArg) is called
CallValidateSecretName ==
    /\ pureCall \in {"validateSecretName", "nameCheck"}
    /\ nameResult = <<>>
    /\ nameResult' = <<ValidateSecretName(nameArg)>>
    /\ UNCHANGED <<pureCall, nameArg, secretsArg, filterResult,
                   pollVars, authVars, upVars, encVars, cliVars>>

\* filterValidSecrets(secretsArg) is called
CallFilterValidSecrets ==
    /\ pureCall = "filterValidSecrets"
    /\ filterResult = <<>>
    /\ filterResult' = <<FilterValidSecrets(secretsArg)>>
    /\ UNCHANGED <<pureCall, nameArg, nameResult, secretsArg,
                   pollVars, authVars, upVars, encVars, cliVars>>

----------------------------------------------------------------------------
(* SecretManagerCLI.start: authenticate, then mainMenu *)

\* private currentUser: any = null
NoUser == [login |-> "", service |-> 0]

\* tokens typed at the password prompt
TypedTokens == {"ghp_good", "ghp_revoked"}

\* data.login of GET /user
Logins == {"octocat", "hubot"}

AuthMethods == {"token", "oauth"}

\* const DEFAULT_OAUTH_CLIENT_ID
DEFAULT_OAUTH_CLIENT_ID == "Ov23li3xgnuTj9rfcWSt"

\* what is typed at "Enter your OAuth App Client ID:"
TypedClientIds == {"", "Iv1.b507a08c87ecfe98"}

\* the validate callback of the client id prompt
ClientIdCallback(value) ==
    IF value = "" THEN Refused("Client ID is required") ELSE Accepted

\* const scopes = includeOrgScopes ? [...] : ["repo"]
ScopesFor(includeOrgScopes) ==
    IF includeOrgScopes THEN <<"repo", "admin:org", "write:org">> ELSE <<"repo">>

\* the positions of start() at which a prompt is shown and awaited
PromptPhases == {"chooseMethod", "tokenPrompt", "askCustomApp", "askClientId",
                 "askOrgScopes", "retryPrompt"}

\* slip: no process.exit in the else branch, the catch block just ends
OnRetryDeclined_Returns == [phase |-> "menu", exitCode |-> <<>>]

\* process.exit(1) after the retry was declined
OnRetryDeclined == [phase |-> "exited", exitCode |-> <<1>>]

\* start(): authenticate() is called and shows its select prompt
Start ==
    /\ cliPhase = "constructed"
    /\ cliPhase' = "chooseMethod"
    /\ authAttempts' = 1
    /\ UNCHANGED <<services, github, currentUser, lookupLog, retryAnswers,
                   exitCode, clientId, scopes, abandonedAt, callbackResult,
                   pollVars, authVars, upVars, pureVars, encVars>>

\* the user picks a method: authenticateWithToken shows the password
\* prompt; authenticateWithOAuth starts from the default client id and, one
\* being configured, asks "Use your own OAuth App instead?"
ChooseMethod(m) ==
    /\ cliPhase = "chooseMethod"
    /\ IF m = "token"
       THEN /\ cliPhase' = "tokenPrompt"
            /\ UNCHANGED <<clientId, scopes>>
       ELSE /\ cliPhase' = "askCustomApp"
            /\ clientId' = DEFAULT_OAUTH_CLIENT_ID
            /\ scopes' = <<>>
    /\ UNCHANGED <<authAttempts, services, github, currentUser, lookupLog,
                   retryAnswers, exitCode, abandonedAt, callbackResult,
                   pollVars, authVars, upVars, pureVars, encVars>>

\* "Use your own OAuth App instead?" is answered: the client id is asked
\* for, or the question about organization repositories follows
CustomAppAnswered(useCustomApp) ==
    /\ cliPhase = "askCustomApp"
    /\ cliPhase' = IF useCustomApp THEN "askClientId" ELSE "askOrgScopes"
    /\ UNCHANGED <<authAttempts, services, github, currentUser, lookupLog,
                   retryAnswers, exitCode, clientId, scopes, abandonedAt,
                   callbackResult, pollVars, authVars, upVars, pureVars,
                   encVars>>

\* a client id that the validate callback accepts is typed (the prompt
\* stays up on a refused one); the question about organization
\* repositories follows
ClientIdTyped(value) ==
    /\ cliPhase = "askClientId"
    /\ ClientIdCallback(value).ok
    /\ clientId' = value
    /\ cliPhase' = "askOrgScopes"
    /\ UNCHANGED <<authAttempts, services, github, currentUser, lookupLog,
                   retryAnswers, exitCode, scopes, abandonedAt,
                   callbackResult, pollVars, authVars, upVars, pureVars,
                   encVars>>

\* "Will you manage organization repositories?" is answered: the scopes
\* are fixed, the GitHubOAuthDevice is constructed and requestDeviceCode is
\* awaited
OrgScopesAnswered(includeOrgScopes) ==
    /\ cliPhase = "askOrgScopes"
    /\ scopes' = ScopesFor(includeOrgScopes)
    /\ cliPhase' = "deviceCode"
    /\ UNCHANGED <<authAttempts, services, github, currentUser, lookupLog,
                   retryAnswers, exitCode, clientId, abandonedAt,
                   callbackResult, pollVars, authVars, upVars, pureVars,
                   encVars>>

\* a prompt rejects (the user closed it): it is awaited outside any try
\* block, so start() rejects and the catch of index.ts exits with code 1
PromptRejects ==
    /\ cliPhase \in PromptPhases
    /\ cliPhase' = "exited"
    /\ exitCode' = <<1>>
    /\ UNCHANGED <<authAttempts, services, github, currentUser, lookupLog,
                   retryAnswers, clientId, scopes, abandonedAt,
                   callbackResult, pollVars, authVars, upVars, pureVars,
                   encVars>>

\* this.github = new GitHubService(token), then getAuthenticatedUser is
\* awaited
NewService(token, nextPhase) ==
    /\ services' = Append(services, token)
    /\ github' = Len(services) + 1
    /\ cliPhase' = nextPhase

\* the token is typed
TokenEntered(token) ==
    /\ cliPhase = "tokenPrompt"
    /\ NewService(token, "lookup")
    /\ UNCHANGED <<authAttempts, currentUser, lookupLog, retryAnswers,
                   exitCode, clientId, scopes, abandonedAt, callbackResult,
                   pollVars, authVars, upVars, pureVars, encVars>>

\* requestDeviceCode returns: the instructions are printed and the child
\* process opening the browser is awaited
CliDeviceCodeReturned ==
    /\ cliPhase = "deviceCode"
    /\ cliPhase' = "openBrowser"
    /\ UNCHANGED <<authAttempts, services, github, currentUser, lookupLog,
                   retryAnswers, exitCode, clientId, scopes, abandonedAt,
                   callbackResult, pollVars, authVars, upVars, pureVars,
                   encVars>>

\* the child process ends, or could not be run (the error is swallowed):
\* pollForAccessToken is awaited
BrowserOpenEnds ==
    /\ cliPhase = "openBrowser"
    /\ cliPhase' = "polling"
    /\ UNCHANGED <<authAttempts, services, github, currentUser, lookupLog,
                   retryAnswers, exitCode, clientId, scopes, abandonedAt,
                   callbackResult, pollVars, authVars, upVars, pureVars,
                   encVars>>

\* pollForAccessToken resolves with tokenData
CliPollResolved(token) ==
    /\ cliPhase = "polling"
    /\ NewService(token, "lookup")
    /\ UNCHANGED <<authAttempts, currentUser, lookupLog, retryAnswers,
                   exitCode, clientId, scopes, abandonedAt, callbackResult,
                   pollVars, authVars, upVars, pureVars, encVars>>

\* requestDeviceCode or pollForAccessToken rejects: the catch block asks
\* whether to try again
CliOAuthFailed ==
    /\ cliPhase \in {"deviceCode", "polling"}
    /\ cliPhase' = "retryPrompt"
    /\ UNCHANGED <<authAttempts, services, github, currentUser, lookupLog,
                   retryAnswers, exitCode, clientId, scopes, abandonedAt,
                   callbackResult, pollVars, authVars, upVars, pureVars,
                   encVars>>

\* GET /user is answered: currentUser is assigned, the authenticate calls
\* return and start() enters mainMenu
LookupSucceeds(login) ==
    /\ cliPhase = "lookup"
    /\ currentUser' = [login |-> login, service |-> github]
    /\ lookupLog' = Append(lookupLog, [service |-> github, ok |-> TRUE, login |-> login])
    /\ cliPhase' = "menu"
    /\ UNCHANGED <<authAttempts, services, github, retryAnswers, exitCode,
                   clientId, scopes, abandonedAt, callbackResult, pollVars,
                   authVars, upVars, pureVars, encVars>>

\* GET /user fails: currentUser is not assigned, the catch block asks
\* whether to try again
LookupFails ==
    /\ cliPhase = "lookup"
    /\ lookupLog' = Append(lookupLog, [service |-> github, ok |-> FALSE, login |-> ""])
    /\ cliPhase' = "retryPrompt"
    /\ UNCHANGED <<authAttempts, services, github, currentUser, retryAnswers,
                   exitCode, clientId, scopes, abandonedAt, callbackResult,
                   pollVars, authVars, upVars, pureVars, encVars>>

\* the retry question is answered: authenticate() again, or process.exit(1)
RetryAnswered(retry) ==
    /\ cliPhase = "retryPrompt"
    /\ retryAnswers' = Append(retryAnswers, retry)
    /\ IF retry
       THEN /\ authAttempts < MaxAuthAttempts
            /\ authAttempts' = authAttempts + 1
            /\ cliPhase' = "chooseMethod"
            /\ UNCHANGED exitCode
       ELSE /\ cliPhase' = OnRetryDeclined.phase
            /\ exitCode' = OnRetryDeclined.exitCode
            /\ UNCHANGED authAttempts
    /\ UNCHANGED <<services, github, currentUser, lookupLog, clientId,
                   scopes, abandonedAt, callbackResult, pollVars, authVars,
                   upVars, pureVars, encVars>>

----------------------------------------------------------------------------
InitPoll ==
    /\ phase = [a \in Attempts |-> "NotStarted"]
    /\ interval = [a \in Attempts |-> 0]
    /\ deviceCode = [a \in Attempts |-> ""]
    /\ posts = [a \in Attempts |-> <<>>]
    /\ waits = [a \in Attempts |-> <<>>]
    /\ responses = [a \in Attempts |-> <<>>]
    /\ result = [a \in Attempts |-> Pending]
    /\ thrown = [a \in Attempts |-> <<>>]
    /\ inflight = [a \in Attempts |-> 0]
    /\ timers = [a \in Attempts |-> 0]
    /\ codeRequest = [a \in Attempts |-> NoPromise]
    /\ deviceAuth = [a \in Attempts |-> NoDeviceAuth]
    /\ via = [a \in Attempts |-> "none"]
    /\ authResult = [a \in Attempts |-> NoAuthResult]

InitUpload ==
    /\ upPhase = "idle"
    /\ upMode = "none"
    /\ secrets = <<>>
    /\ idx = 0
    /\ publicKeyData = NoKey
    /\ encryptedValue = <<>>
    /\ keyLog = <<>>
    /\ puts = <<>>
    /\ putsDone = <<>>
    /\ success = <<>>
    /\ failed = <<>>
    /\ upResult = NoPromise
    /\ sodiumReady = FALSE

\* no env-parser function is applied
InitPure ==
    /\ pureCall = "none"
    /\ nameArg = ""
    /\ nameResult = <<>>
    /\ secretsArg = <<>>
    /\ filterResult = <<>>

\* one env-parser function is about to be applied to one input
InitNameInputs ==
    /\ nameResult = <<>>
    /\ filterResult = <<>>
    /\ \/ /\ pureCall = "validateSecretName"
          /\ nameArg \in NameInputs
          /\ secretsArg = <<>>
       \/ /\ pureCall = "filterValidSecrets"
          /\ nameArg = ""
          /\ secretsArg \in ObjectInputs

\* one name is about to be given to both name checks
InitNameCheckInputs ==
    /\ pureCall = "nameCheck"
    /\ nameArg \in NameInputs
    /\ nameResult = <<>>
    /\ secretsArg = <<>>
    /\ filterResult = <<>>

\* no encryptSecret call was made; importing the library started its
\* initialisation
InitEncrypt ==
    /\ encPhase = [e \in EncCalls |-> "idle"]
    /\ encArgs = [e \in EncCalls |-> NoEncArgs]
    /\ encOut = [e \in EncCalls |-> Throw("")]
    /\ encWaited = [e \in EncCalls |-> FALSE]
    /\ sodiumInits = 1

\* the caller has not given up on any attempt; no name was typed; the
\* SecretManagerCLI was constructed and start() not yet called
InitCli ==
    /\ abandonedAt = [a \in Attempts |-> <<>>]
    /\ callbackResult = <<>>
    /\ cliPhase = "constructed"
    /\ authAttempts = 0
    /\ services = <<>>
    /\ github = 0
    /\ currentUser = NoUser
    /\ lookupLog = <<>>
    /\ retryAnswers = <<>>
    /\ exitCode = <<>>
    /\ clientId = ""
    /\ scopes = <<>>

Init == InitPoll /\ InitUpload /\ InitPure /\ InitEncrypt /\ InitCli

InitNameCheck ==
    InitPoll /\ InitUpload /\ InitEncrypt /\ InitCli /\ InitNameCheckInputs

InitNames == InitPoll /\ InitUpload /\ InitEncrypt /\ InitCli /\ InitNameInputs

\* one polling attempt
NextPoll ==
    \/ \E dc \in DeviceCodes, iv \in Intervals : PollForAccessToken("a1", dc, iv)
    \/ \E data \in TokenResponses : TokenResponse("a1", data)
    \/ \E err \in TransportErrors : TokenRequestThrows("a1", err)
    \/ TimerFires("a1")

\* one polling attempt against a server that eventually gives a terminal
\* answer
NextLive ==
    \/ \E dc \in DeviceCodes, iv \in Intervals : PollForAccessToken("a1", dc, iv)
    \/ \E data \in TokenResponses : ServerAnswers("a1", data)
    \/ \E err \in TransportErrors : TokenRequestThrows("a1", err)
    \/ TimerFires("a1")

\* every token request completes, every armed timer fires
RequestCompletes(a) ==
    \/ \E data \in TokenResponses : ServerAnswers(a, data)
    \/ \E err \in TransportErrors : TokenRequestThrows(a, err)

\* one polling attempt that its caller may give up during a wait
NextCancel ==
    \/ \E dc \in DeviceCodes, iv \in Intervals : PollForAccessToken("a1", dc, iv)
    \/ \E data \in TokenResponses : TokenResponse("a1", data)
    \/ \E err \in TransportErrors : TokenRequestThrows("a1", err)
    \/ TimerFires("a1")
    \/ Abandon("a1")

\* the token responses of the interleaved attempts: both kinds of wait, a
\* rejection and a token
ConcurrentResponses ==
    {d \in TokenResponses \ {NullBody} :
        \/ d.error \in {"authorization_pending", "slow_down", "access_denied"}
                /\ d.access_token = ""
        \/ d.error = "" /\ d.access_token = "gho_16C7"}

\* two pollForAccessToken calls, interleaved in any order
NextConcurrent ==
    \/ \E a \in Attempts, dc \in DeviceCodes, iv \in Intervals :
            PollForAccessToken(a, dc, iv)
    \/ \E a \in Attempts, data \in ConcurrentResponses : TokenResponse(a, data)
    \/ \E a \in Attempts : TokenRequestThrows(a, "Network Error")
    \/ \E a \in Attempts : TimerFires(a)

\* one authorization attempt made through authenticate() or by a caller
\* that runs requestDeviceCode and pollForAccessToken itself
NextAuth ==
    \/ Authenticate("a1")
    \/ RequestDeviceCode("a1")
    \/ \E resp \in DeviceCodeResponses : DeviceCodeResponse("a1", resp)
    \/ \E err \in TransportErrors : DeviceCodeFails("a1", err)
    \/ AuthenticatePolls("a1")
    \/ CallerPolls("a1")
    \/ \E data \in TokenResponses : TokenResponse("a1", data)
    \/ \E err \in TransportErrors : TokenRequestThrows("a1", err)
    \/ TimerFires("a1")
    \/ AuthenticateReturns("a1")

\* one upload: a direct createOrUpdateRepoSecret call or one batch
NextUpload ==
    \/ \E entry \in SecretEntry : CreateOrUpdateRepoSecret(entry)
    \/ \E list \in SecretLists : BatchCreateSecrets(list)
    \/ \E rec \in KeyRecords : PublicKeyResponse(rec)
    \/ \E msg \in ApiErrors : PublicKeyFails(msg)
    \/ SodiumBecomesReady
    \/ \E eph \in Ephemerals : Encrypt(eph)
    \/ PutResponse
    \/ \E msg \in ApiErrors : PutFails(msg)

\* one application of an env-parser function
NextNames ==
    \/ CallValidateSecretName
    \/ CallFilterValidSecrets

\* one run of start() up to the main menu or the exit
NextCli ==
    \/ Start
    \/ \E m \in AuthMethods : ChooseMethod(m)
    \/ \E token \in TypedTokens : TokenEntered(token)
    \/ \E useCustomApp \in BOOLEAN : CustomAppAnswered(useCustomApp)
    \/ \E value \in TypedClientIds : ClientIdTyped(value)
    \/ \E includeOrgScopes \in BOOLEAN : OrgScopesAnswered(includeOrgScopes)
    \/ PromptRejects
    \/ CliDeviceCodeReturned
    \/ BrowserOpenEnds
    \/ \E token \in AccessTokens : CliPollResolved(token)
    \/ CliOAuthFailed
    \/ \E login \in Logins : LookupSucceeds(login)
    \/ LookupFails
    \/ \E retry \in BOOLEAN : RetryAnswered(retry)

\* the two name checks applied to the same name
NextNameCheck ==
    \/ CallValidateSecretName
    \/ CallValidateCallback

Next ==
    \/ NextNameCheck \/ NextCli
    \/ NextPoll \/ NextAuth \/ NextLive \/ NextCancel \/ NextConcurrent
    \/ NextUpload \/ NextNames \/ NextEncrypt

Spec == Init /\ [][Next]_vars

SpecPoll == Init /\ [][NextPoll]_vars

SpecAuth == Init /\ [][NextAuth]_vars

SpecLive ==
    /\ Init
    /\ [][NextLive]_vars
    /\ WF_vars(RequestCompletes("a1"))
    /\ WF_vars(TimerFires("a1"))

SpecCancel == Init /\ [][NextCancel]_vars

SpecConcurrent == Init /\ [][NextConcurrent]_vars

SpecUpload == Init /\ [][NextUpload]_vars

SpecNames == InitNames /\ [][NextNames]_vars

SpecNameCheck == InitNameCheck /\ [][NextNameCheck]_vars

SpecCli == Init /\ [][NextCli]_vars

SpecEncrypt == Init /\ [][NextEncrypt]_vars

----------------------------------------------------------------------------
(* Properties of pollForAccessToken *)

Last(seq) == seq[Len(seq)]

\* the error code and the token a response carries; a null body carries
\* neither
ErrorOf(data) == IF data = NullBody THEN "" ELSE data.error
TokenOf(data) == IF data = NullBody THEN "" ELSE data.access_token

\* the attempt is still polling: a request is in flight or a timer is pending
Polling(a) == phase[a] \in {"Requesting", "Waiting"} /\ result[a] = Pending

\* slow_down responses among the first i responses of attempt a
SlowDowns(a, i) ==
    Cardinality({j \in 1..i : ErrorOf(responses[a][j]) = "slow_down"})

\* response i of attempt a did not settle the promise: it was followed by
\* a wait of ms milliseconds and then by exactly one further token request
\* (still to be issued while the timer is pending).  If i is the last
\* response and the promise is settled, that further request threw.
ContinuedAfter(a, i, ms) ==
    /\ Len(waits[a]) >= i
    /\ waits[a][i] = ms
    /\ i = Len(responses[a]) =>
        /\ Len(waits[a]) = i
        /\ phase[a] = "Waiting" => (Len(posts[a]) = i /\ result[a] = Pending)
        /\ phase[a] = "Requesting" => (Len(posts[a]) = i + 1 /\ result[a] = Pending)
        /\ phase[a] = "Settled" =>
            /\ Len(posts[a]) = i + 1
            /\ result[a].state = "rejected"
            /\ result[a].error \in TransportErrors

\* attempt a was ended by its last response: no request was issued and no
\* timer was set after it
EndedByLastResponse(a) ==
    /\ phase[a] = "Settled"
    /\ Len(posts[a]) = Len(responses[a])
    /\ Len(waits[a]) = Len(responses[a]) - 1

\* C11: when a token request throws, the promise is rejected with the
\* thrown error at once: the request is not retried, no timer is set and no
\* further request is issued.
C11_TransportErrorIsTerminal ==
    \A a \in Attempts :
        thrown[a] # <<>> =>
            /\ Len(thrown[a]) = 1
            /\ phase[a] = "Settled"
            /\ result[a].state = "rejected"
            /\ result[a].error = thrown[a][1]
            /\ Len(posts[a]) = Len(responses[a]) + 1
            /\ Len(waits[a]) = Len(responses[a])
            /\ inflight[a] = 0
            /\ timers[a] = 0

C11_Witness ==
    /\ thrown["a1"] = <<"Request failed with status code 503">>
    /\ Len(responses["a1"]) = 2
    /\ result["a1"].error = "Request failed with status code 503"

\* C2 (as claimed): after k slow_down responses every later wait is at
\* least (initial interval + 5k) seconds, and a slow_down response leaves
\* the attempt polling.
C2_SlowDownPersists ==
    \A a \in Attempts :
        \A i \in 1..Len(waits[a]) :
            /\ waits[a][i] >=
                (interval[a] + SlowDownIncrement * SlowDowns(a, i)) * MsPerSecond
            /\ (ErrorOf(responses[a][i]) = "slow_down" /\ i = Len(responses[a]))
                    => Polling(a)

\* C3: an authorization_pending response is followed by a wait of exactly
\* interval seconds (the interval of the attempt, which the code never
\* reassigns) and then by exactly one further token request; it neither
\* resolves nor rejects the promise.
C3_PendingWaitsInterval ==
    \A a \in Attempts :
        \A i \in 1..Len(responses[a]) :
            ErrorOf(responses[a][i]) = "authorization_pending"
                => ContinuedAfter(a, i, interval[a] * MsPerSecond)

C3_Witness ==
    /\ Len(responses["a1"]) = 2
    /\ ErrorOf(responses["a1"][1]) = "authorization_pending"
    /\ ErrorOf(responses["a1"][2]) = "authorization_pending"
    /\ phase["a1"] = "Requesting"
    /\ interval["a1"] = 2

\* the responses of attempt a are n authorization_pending, one slow_down,
\* then a response with an access token and no error
PendingSlowDownToken(a, n) ==
    /\ Len(responses[a]) = n + 2
    /\ \A i \in 1..n : ErrorOf(responses[a][i]) = "authorization_pending"
    /\ ErrorOf(responses[a][n + 1]) = "slow_down"
    /\ ErrorOf(responses[a][n + 2]) = ""
    /\ TokenOf(responses[a][n + 2]) # ""

\* C4: for n authorization_pending responses, one slow_down and a token
\* response the waits are n times interval, then interval + 5; n + 2 token
\* requests are issued and the promise resolves with that token.
C4_PendingSlowDownTokenScenario ==
    \A a \in Attempts :
        \A n \in 0..MaxPolls :
            PendingSlowDownToken(a, n) =>
                /\ waits[a] = [i \in 1..(n + 1) |->
                        IF i <= n THEN interval[a] * MsPerSecond
                        ELSE (interval[a] + SlowDownIncrement) * MsPerSecond]
                /\ Len(posts[a]) = n + 2
                /\ result[a].state = "fulfilled"
                /\ result[a].value.access_token = TokenOf(responses[a][n + 2])

C4_Witness ==
    /\ responses["a1"] = <<[error |-> "authorization_pending", access_token |-> ""],
                           [error |-> "slow_down", access_token |-> ""],
                           [error |-> "", access_token |-> "tok"]>>
    /\ interval["a1"] = 2
    /\ waits["a1"] = <<2000, 7000>>
    /\ result["a1"].state = "fulfilled"

\* C5: an expired_token response rejects the promise with the device-code-
\* expired error and is the last thing the attempt does: no further token
\* request, no further timer.
C5_ExpiredIsTerminal ==
    \A a \in Attempts :
        \A i \in 1..Len(responses[a]) :
            ErrorOf(responses[a][i]) = "expired_token" =>
                /\ i = Len(responses[a])
                /\ result[a].state = "rejected"
                /\ result[a].error = "Device code expired. Please try again."
                /\ EndedByLastResponse(a)

C5_Witness ==
    /\ Len(responses["a1"]) = 3
    /\ ErrorOf(responses["a1"][3]) = "expired_token"
    /\ phase["a1"] = "Settled"

\* C6: an access_denied response rejects the promise with the user-denied
\* error and ends the attempt; no other outcome (expired code, other
\* provider code, transport failure) produces that error.
C6_DeniedIsTerminalAndDistinct ==
    \A a \in Attempts :
        /\ \A i \in 1..Len(responses[a]) :
            ErrorOf(responses[a][i]) = "access_denied" =>
                /\ i = Len(responses[a])
                /\ result[a].state = "rejected"
                /\ result[a].error = "Access denied by user."
                /\ EndedByLastResponse(a)
        /\ (result[a].state = "rejected" /\ result[a].error = "Access denied by user.")
            => /\ Len(responses[a]) = Len(posts[a])
               /\ ErrorOf(Last(responses[a])) = "access_denied"

C6_Witness ==
    /\ Len(responses["a1"]) = 2
    /\ ErrorOf(responses["a1"][2]) = "access_denied"
    /\ result["a1"].state = "rejected"

KnownErrorCodes ==
    {"authorization_pending", "slow_down", "expired_token", "access_denied"}

\* C7: any other non-empty error code rejects the promise with a message
\* that is "OAuth error: " followed by the raw code, which contains neither
\* an access token nor the device code, and ends the attempt.
C7_OtherErrorIsTerminal ==
    \A a \in Attempts :
        \A i \in 1..Len(responses[a]) :
            (ErrorOf(responses[a][i]) # "" /\ ErrorOf(responses[a][i]) \notin KnownErrorCodes) =>
                /\ i = Len(responses[a])
                /\ result[a].state = "rejected"
                /\ result[a].error = "OAuth error: " \o ErrorOf(responses[a][i])
                /\ Contains(result[a].error, ErrorOf(responses[a][i]))
                /\ \A t \in AccessTokens : ~Contains(result[a].error, t)
                /\ ~Contains(result[a].error, deviceCode[a])
                /\ EndedByLastResponse(a)

C7_Witness ==
    /\ Len(responses["a1"]) = 2
    /\ responses["a1"][2] = [error |-> "device_flow_disabled", access_token |-> "tok"]
    /\ result["a1"].error = "OAuth error: device_flow_disabled"

\* C8: a response with a non-empty access token and no error resolves the
\* promise with exactly that response (so with its token) and ends the
\* attempt.
C8_TokenResolves ==
    \A a \in Attempts :
        \A i \in 1..Len(responses[a]) :
            (ErrorOf(responses[a][i]) = "" /\ TokenOf(responses[a][i]) # "") =>
                /\ i = Len(responses[a])
                /\ result[a].state = "fulfilled"
                /\ result[a].value = responses[a][i]
                /\ result[a].value.access_token = TokenOf(responses[a][i])
                /\ EndedByLastResponse(a)

C8_Witness ==
    /\ Len(responses["a1"]) = 3
    /\ responses["a1"][3] = [error |-> "", access_token |-> "gho_16C7"]
    /\ result["a1"].state = "fulfilled"

\* C9: the error field is checked first: a response carrying both an error
\* code and an access token is handled by its error code alone, and the
\* promise is never resolved from a response that has an error.
C9_ErrorCheckedFirst ==
    \A a \in Attempts :
        /\ result[a].state = "fulfilled" =>
            /\ ErrorOf(Last(responses[a])) = ""
            /\ result[a].value = Last(responses[a])
        /\ \A i \in 1..Len(responses[a]) :
            (ErrorOf(responses[a][i]) # "" /\ TokenOf(responses[a][i]) # "") =>
                IF ErrorOf(responses[a][i]) = "authorization_pending"
                THEN ContinuedAfter(a, i, interval[a] * MsPerSecond)
                ELSE IF ErrorOf(responses[a][i]) = "slow_down"
                THEN ContinuedAfter(a, i, (interval[a] + SlowDownIncrement) * MsPerSecond)
                ELSE /\ i = Len(responses[a])
                     /\ result[a].state = "rejected"
                     /\ EndedByLastResponse(a)

C9_Witness ==
    /\ Len(responses["a1"]) = 2
    /\ responses["a1"][1] = [error |-> "authorization_pending", access_token |-> "tok"]
    /\ responses["a1"][2] = [error |-> "access_denied", access_token |-> "tok"]
    /\ result["a1"].state = "rejected"

\* C10 (as claimed): a response with neither an error nor an access token
\* is handled like authorization_pending: a wait of interval seconds, then
\* one further token request; the promise is not rejected by it.
C10_UnexpectedKeepsPolling ==
    \A a \in Attempts :
        \A i \in 1..Len(responses[a]) :
            (ErrorOf(responses[a][i]) = "" /\ TokenOf(responses[a][i]) = "")
                => ContinuedAfter(a, i, interval[a] * MsPerSecond)

----------------------------------------------------------------------------
(* Properties of the upload pipeline *)

\* the value encryptSecret returns for plaintext value sealed to the key
\* string key with ephemeral key eph
SealedCiphertext(value, key, eph) ==
    <<"base64", <<"crypto_box_seal", eph, Base64Decoded[key].value, Utf8Bytes[value]>>>>

\* C1: every PUT carries, for the secret it names, the base64 of a sealed
\* box of that secret's value under the key of the public-key record fetched
\* in the same createOrUpdateRepoSecret call (so never the plaintext or its
\* mere encoding), together with the key_id of that same record.
C1_OnlySealedValuesAreSent ==
    \A i \in 1..Len(puts) :
        \E k \in 1..Len(keyLog) :
            /\ k <= Len(secrets)
            /\ secrets[k].name = puts[i].secret_name
            /\ keyLog[k].ok
            /\ Base64Decoded[keyLog[k].data.key].ok
            /\ puts[i].key_id = keyLog[k].data.key_id
            /\ \E eph \in Ephemerals :
                puts[i].encrypted_value =
                    SealedCiphertext(secrets[k].value, keyLog[k].data.key, eph)
            /\ puts[i].encrypted_value # ToBase64(Utf8Bytes[secrets[k].value])

C1_Witness ==
    /\ upMode = "batch"
    /\ Len(puts) = 2
    /\ puts[1].key_id = "568250167242549743"
    /\ puts[2].key_id = "3380204578043523366"
    /\ puts[1].secret_name = "API_KEY"
    /\ puts[2].secret_name = "DB_PASS"
    /\ success = <<"API_KEY">>

----------------------------------------------------------------------------
(* The authorization attempt as a state machine *)

\* the state of the attempt, read off the position of the calls and the
\* settled promise
AttemptState(a) ==
    IF phase[a] \in {"NotStarted", "CodeRequested"} THEN phase[a]
    ELSE IF phase[a] \in {"Requesting", "Waiting"} THEN "Polling"
    ELSE IF result[a].state = "fulfilled" THEN "Succeeded"
    ELSE IF result[a].error = "Device code expired. Please try again." THEN "Expired"
    ELSE IF result[a].error = "Access denied by user." THEN "Denied"
    ELSE "Failed"

TerminalStates == {"Succeeded", "Expired", "Denied", "Failed"}

AttemptEdges ==
    {<<"NotStarted", "CodeRequested">>, <<"CodeRequested", "Polling">>}
        \cup {<<"Polling", t>> : t \in TerminalStates}

\* what the attempt has issued, received and settled
AttemptHistory(a) ==
    <<phase[a], interval[a], deviceCode[a], deviceAuth[a], posts[a], waits[a],
      responses[a], thrown[a], result[a], inflight[a], timers[a]>>

\* C12: every step of an attempt either keeps its state or follows
\* NotStarted -> CodeRequested -> Polling -> {Succeeded, Expired, Denied,
\* Failed}; in a terminal state the promise is settled, nothing is in flight
\* or armed, and no later step issues a request, sets a timer or settles
\* again; only in Polling does a step change the attempt and keep the state.
C12_AttemptTransitions ==
    [][\A a \in Attempts :
        /\ AttemptState(a)' # AttemptState(a) =>
                <<AttemptState(a), AttemptState(a)'>> \in AttemptEdges
        /\ AttemptState(a)' \in TerminalStates =>
                /\ result'[a].state \in {"fulfilled", "rejected"}
                /\ inflight'[a] = 0
                /\ timers'[a] = 0
        /\ AttemptState(a) \in TerminalStates =>
                AttemptHistory(a)' = AttemptHistory(a)
        /\ result[a].state # "pending" => result'[a] = result[a]
        /\ (AttemptState(a)' = AttemptState(a)
                /\ AttemptHistory(a)' # AttemptHistory(a)) =>
                AttemptState(a) = "Polling"
      ]_vars

C12_Witness ==
    /\ AttemptState("a1") = "Denied"
    /\ via["a1"] = "authenticate"
    /\ Len(waits["a1"]) = 2
    /\ authResult["a1"].state = "rejected"

\* C13: authenticate() issues token requests only after requestDeviceCode
\* returned, with the device_code and interval of that response; it
\* fulfils with the access_token string of the fulfilled poll and rejects
\* with the error of whichever step rejected; after a failed
\* requestDeviceCode no token request exists.
C13_AuthenticateComposes ==
    \A a \in Attempts :
        via[a] = "authenticate" =>
            /\ posts[a] # <<>> =>
                /\ codeRequest[a].state = "fulfilled"
                /\ interval[a] = deviceAuth[a].interval
                /\ \A i \in 1..Len(posts[a]) :
                        posts[a][i] = TokenRequest(deviceAuth[a].device_code)
            /\ codeRequest[a].state \in {"pending", "rejected"} =>
                /\ phase[a] = "NotStarted"
                /\ posts[a] = <<>>
                /\ inflight[a] = 0
                /\ timers[a] = 0
            /\ authResult[a].state = "fulfilled" =>
                /\ result[a].state = "fulfilled"
                /\ authResult[a].value \in AccessTokens
                /\ authResult[a].value = TokenOf(Last(responses[a]))
            /\ authResult[a].state = "rejected" =>
                \/ /\ codeRequest[a].state = "rejected"
                   /\ authResult[a].error = codeRequest[a].error
                \/ /\ codeRequest[a].state = "fulfilled"
                   /\ result[a].state = "rejected"
                   /\ authResult[a].error = result[a].error

C13_Witness ==
    /\ via["a1"] = "authenticate"
    /\ deviceAuth["a1"].interval = 2
    /\ waits["a1"] = <<2000, 7000>>
    /\ authResult["a1"] = [state |-> "fulfilled", value |-> "gho_16C7", error |-> ""]

RECURSIVE SumSeq(_)
SumSeq(q) == IF q = <<>> THEN 0 ELSE Head(q) + SumSeq(Tail(q))

\* C17 (as claimed): the waits of one attempt never add up to more than
\* expires_in seconds, so no request is issued and no timer is pending
\* after the device code's lifetime.
C17_PollingBoundedByExpiry ==
    \A a \in Attempts :
        posts[a] # <<>> /\ deviceAuth[a] # NoDeviceAuth =>
            SumSeq(waits[a]) <= deviceAuth[a].expires_in * MsPerSecond

\* C18: at any moment an attempt has at most one thing outstanding, a token
\* request in flight or an armed timer, and it is the one its control
\* position says; every request but the last was answered and every timer
\* but the last has fired.
C18_SingleFlowOfControl ==
    \A a \in Attempts :
        /\ inflight[a] + timers[a] <= 1
        /\ inflight[a] = 1 <=> phase[a] = "Requesting"
        /\ timers[a] = 1 <=> phase[a] = "Waiting"
        /\ inflight[a] = Len(posts[a]) - Len(responses[a]) - Len(thrown[a])
        /\ posts[a] # <<>> => timers[a] = Len(waits[a]) - (Len(posts[a]) - 1)

C18_Witness ==
    /\ timers["a1"] = 1
    /\ inflight["a1"] = 0
    /\ Len(waits["a1"]) = 3
    /\ Len(posts["a1"]) = 3

----------------------------------------------------------------------------
(* Cancellation, causes of rejection, the first request *)

\* C21 (as claimed): once the caller has given up on an attempt during a
\* wait, no further token request is issued for it.
C21_NoRequestAfterAbandon ==
    \A a \in Attempts :
        abandonedAt[a] # <<>> => Len(posts[a]) = abandonedAt[a][1]

\* the response is a pending, a slow_down or an unexpected one (no error,
\* no token)
Transient(data) ==
    \/ ErrorOf(data) \in {"authorization_pending", "slow_down"}
    \/ ErrorOf(data) = "" /\ TokenOf(data) = ""

\* C22 (as claimed): a rejected attempt was rejected by its last response,
\* which carries a non-empty error code other than authorization_pending
\* and slow_down, or by a thrown token request; every authorization_pending,
\* slow_down or empty response was followed by a wait, not by a rejection.
C22_RejectionCauses ==
    \A a \in Attempts :
        /\ result[a].state = "rejected" =>
            \/ /\ thrown[a] # <<>>
               /\ result[a].error = Last(thrown[a])
            \/ /\ thrown[a] = <<>>
               /\ responses[a] # <<>>
               /\ ErrorOf(Last(responses[a]))
                    \notin {"", "authorization_pending", "slow_down"}
        /\ \A i \in 1..Len(responses[a]) :
                Transient(responses[a][i]) =>
                    /\ Len(waits[a]) >= i
                    /\ (i = Len(responses[a]) /\ thrown[a] = <<>>) =>
                            result[a].state = "pending"

\* C23: once pollForAccessToken has been called, and given that requests
\* complete, timers fire and the server ends up answering with a token, a
\* terminal error code or a failure, the promise is eventually settled.
C23_EventuallySettles ==
    (posts["a1"] # <<>>) ~> (result["a1"].state \in {"fulfilled", "rejected"})

C23_Witness ==
    /\ Len(posts["a1"]) = MaxPolls
    /\ Len(responses["a1"]) = MaxPolls
    /\ NonTerminal(responses["a1"][MaxPolls - 1])
    /\ result["a1"].state = "rejected"
    /\ result["a1"].error = "Device code expired. Please try again."

\* C27: the first token request is issued by the call itself, before any
\* wait; while a request is in flight and once the attempt has settled,
\* n requests were issued and exactly n - 1 waits lie between them; a
\* pending wait is the one after the latest request.
C27_FirstRequestImmediate ==
    \A a \in Attempts :
        /\ phase[a] \in {"NotStarted", "CodeRequested"} =>
                posts[a] = <<>> /\ waits[a] = <<>>
        /\ phase[a] \in {"Requesting", "Settled"} =>
                Len(posts[a]) >= 1 /\ Len(waits[a]) = Len(posts[a]) - 1
        /\ phase[a] = "Waiting" =>
                Len(posts[a]) >= 1 /\ Len(waits[a]) = Len(posts[a])

C27_Witness ==
    /\ phase["a1"] = "Settled"
    /\ Len(posts["a1"]) = 4
    /\ Len(waits["a1"]) = 3
    /\ result["a1"].state = "fulfilled"

----------------------------------------------------------------------------
(* Interleaved attempts *)

\* C19: whatever the interleaving of two pollForAccessToken calls, every
\* wait of an attempt is the one its own interval and its own response at
\* that position give, and its outcome is the one its own last response, or
\* its own failed request, gives; its requests carry its own device code.
C19_AttemptsDoNotInterfere ==
    \A a \in Attempts :
        /\ \A i \in 1..Len(posts[a]) : posts[a][i] = TokenRequest(deviceCode[a])
        /\ Len(waits[a]) <= Len(responses[a])
        /\ \A i \in 1..Len(waits[a]) :
                HandleResponse(responses[a][i], interval[a]) = SetTimeout(waits[a][i])
        /\ result[a].state = "pending" => Len(waits[a]) = Len(responses[a])
        /\ result[a].state = "fulfilled" =>
                /\ Len(waits[a]) = Len(responses[a]) - 1
                /\ HandleResponse(Last(responses[a]), interval[a]) =
                        Resolve(result[a].value)
        /\ (result[a].state = "rejected" /\ thrown[a] = <<>>) =>
                /\ Len(waits[a]) = Len(responses[a]) - 1
                /\ HandleResponse(Last(responses[a]), interval[a]) =
                        Reject(result[a].error)
        /\ (result[a].state = "rejected" /\ thrown[a] # <<>>) =>
                /\ Len(waits[a]) = Len(responses[a])
                /\ result[a].error = thrown[a][1]

C19_Witness ==
    /\ interval["a1"] = 1
    /\ interval["a2"] = 2
    /\ waits["a1"] = <<1000, 6000, 1000>>
    /\ waits["a2"] = <<7000>>
    /\ result["a2"].state = "rejected"
    /\ result["a2"].error = "Access denied by user."
    /\ result["a1"].state = "fulfilled"

----------------------------------------------------------------------------
(* Failed encryption *)

\* the error encryptSecret throws for a key string it cannot use: one that
\* is not base64 and one that decodes to 5 bytes
EncryptionError(key) ==
    IF key = "not-base64!!" THEN "invalid input"
    ELSE IF key = "c2hvcnQ=" THEN "invalid publicKey length"
    ELSE ""

\* call k has returned
Finished(k) == k < idx \/ (k = idx /\ upPhase = "done")

\* C14: a createOrUpdateRepoSecret call whose encryption throws issues
\* exactly one request, the public-key GET, and no PUT; called directly it
\* rejects with the encryption error, in a batch its name is listed in
\* failed with that error and not in success.
C14_FailedEncryptionAbortsUpload ==
    \A k \in 1..Len(keyLog) :
        (keyLog[k].ok /\ EncryptionError(keyLog[k].data.key) # "") =>
            /\ \A i \in 1..Len(puts) : puts[i].secret_name # secrets[k].name
            /\ Len(puts) <= Len(keyLog) - 1
            /\ k = idx => upPhase \in {"encrypting", "done"}
            /\ (Finished(k) /\ upMode = "single") =>
                    upResult = [state |-> "rejected",
                                error |-> EncryptionError(keyLog[k].data.key)]
            /\ (Finished(k) /\ upMode = "batch") =>
                /\ \E j \in 1..Len(failed) :
                        failed[j] = [name |-> secrets[k].name,
                                     error |-> EncryptionError(keyLog[k].data.key)]
                /\ \A j \in 1..Len(success) : success[j] # secrets[k].name

C14_Witness ==
    /\ upMode = "batch"
    /\ upPhase = "done"
    /\ Len(keyLog) = 2
    /\ keyLog[1].data.key = "c2hvcnQ="
    /\ keyLog[2].data.key = "gzbVVfzAkWh27UlcW6buc+96aEg58a6/TAuqeT1RssI="
    /\ failed = <<[name |-> "API_KEY", error |-> "invalid publicKey length"]>>
    /\ success = <<"DB_PASS">>
    /\ Len(puts) = 1

----------------------------------------------------------------------------
(* Order of the upload steps, and the batch *)

\* C24: within a createOrUpdateRepoSecret call the key is fetched, then
\* the value is encrypted, then the PUT is issued: call number idx has its
\* own key fetch (n calls, n fetches), encryption works on the key of that
\* fetch, and a PUT exists only for a call whose fetch and encryption both
\* succeeded, carrying the value sealed under that call's key and its key_id.
C24_FetchEncryptPut ==
    /\ upPhase = "fetching" =>
            /\ Len(keyLog) = idx - 1
            /\ publicKeyData = NoKey
            /\ \A i \in 1..Len(puts) : puts[i].secret_name # secrets[idx].name
    /\ upPhase \in {"encrypting", "putting"} =>
            /\ Len(keyLog) = idx
            /\ keyLog[idx].ok
            /\ publicKeyData = keyLog[idx].data
    /\ upPhase = "encrypting" =>
            /\ encryptedValue = <<>>
            /\ \A i \in 1..Len(puts) : puts[i].secret_name # secrets[idx].name
    /\ upPhase = "putting" =>
            /\ EncryptionError(keyLog[idx].data.key) = ""
            /\ \E eph \in Ephemerals :
                    encryptedValue = SealedCiphertext(secrets[idx].value,
                                                      keyLog[idx].data.key, eph)
            /\ puts # <<>>
            /\ Last(puts) = [secret_name |-> secrets[idx].name,
                             encrypted_value |-> encryptedValue,
                             key_id |-> keyLog[idx].data.key_id]
    /\ upPhase = "done" => Len(keyLog) = Len(secrets)
    /\ Len(puts) <= Cardinality({k \in 1..Len(keyLog) :
                        keyLog[k].ok /\ EncryptionError(keyLog[k].data.key) = ""})
    /\ \A i \in 1..Len(puts) :
            \E k \in 1..Len(keyLog) :
                /\ secrets[k].name = puts[i].secret_name
                /\ keyLog[k].ok
                /\ puts[i].key_id = keyLog[k].data.key_id

C24_Witness ==
    /\ upMode = "batch"
    /\ upPhase = "putting"
    /\ idx = 2
    /\ Len(keyLog) = 2
    /\ Len(puts) = 2
    /\ keyLog[1].data.key_id = "3380204578043523366"
    /\ keyLog[2].data.key_id = "568250167242549743"
    /\ puts[2].key_id = "568250167242549743"

\* entries of the batch whose processing has ended
Processed == IF upPhase = "done" THEN Len(secrets) ELSE idx - 1

PutCompleted(e) == \E i \in 1..Len(putsDone) : putsDone[i] = e.name
PutNotCompleted(e) == ~PutCompleted(e)

\* C25: batchCreateSecrets handles the entries one at a time in input
\* order, goes on after a failed entry, never rejects, and when it returns
\* every input name is in exactly one of success and failed, success being
\* the names whose PUT completed.
C25_BatchPartition ==
    upMode = "batch" =>
        LET handled == SubSeq(secrets, 1, Processed)
            succeeded == SelectSeq(handled, PutCompleted)
            notSucceeded == SelectSeq(handled, PutNotCompleted)
        IN /\ Len(keyLog) \in {Processed, Processed + 1}
           /\ Len(keyLog) = Processed + 1 => upPhase \in {"encrypting", "putting"}
           /\ success = [i \in 1..Len(succeeded) |-> succeeded[i].name]
           /\ Len(failed) = Len(notSucceeded)
           /\ \A i \in 1..Len(failed) :
                    /\ failed[i].name = notSucceeded[i].name
                    /\ failed[i].error # ""
           /\ putsDone = success
           /\ upResult.state # "rejected"
           /\ upPhase = "done" =>
                    /\ upResult.state = "fulfilled"
                    /\ Len(success) + Len(failed) = Len(secrets)
                    /\ \A k \in 1..Len(secrets) :
                        (\E i \in 1..Len(success) : success[i] = secrets[k].name)
                            <=> ~(\E i \in 1..Len(failed) :
                                        failed[i].name = secrets[k].name)

C25_Witness ==
    /\ upMode = "batch"
    /\ upPhase = "done"
    /\ Len(secrets) = 2
    /\ failed = <<[name |-> secrets[1].name, error |-> "Not Found"]>>
    /\ success = <<secrets[2].name>>
    /\ keyLog[1].ok = FALSE
    /\ upResult.state = "fulfilled"

----------------------------------------------------------------------------
(* Properties of validateSecretName and filterValidSecrets *)

IsLetter(c) == InClass(c, UpperCase) \/ InClass(c, LowerCase)

\* name matches ^[A-Za-z_][A-Za-z0-9_]*$
MatchesNamePattern(name) ==
    /\ name # ""
    /\ \A i \in 1..Len(name) :
            LET c == CharAt(name, i) IN
            IsLetter(c) \/ c = "_" \/ (i > 1 /\ InClass(c, Digits))

\* name starts with GITHUB_, letter case included
StartsWithGithub(name) ==
    /\ Len(name) >= 7
    /\ \A i \in 1..7 : CharAt(name, i) = CharAt("GITHUB_", i)

\* C15: validateSecretName returns true exactly for the names that match
\* ^[A-Za-z_][A-Za-z0-9_]*$ and do not start with GITHUB_; false for
\* GITHUB_FOO, 1ABC, bad-name and the empty string, true for github_foo
\* and GITHUB.
C15_ValidNameCharacterisation ==
    nameResult # <<>> =>
        /\ nameResult[1] <=>
                (MatchesNamePattern(nameArg) /\ ~StartsWithGithub(nameArg))
        /\ nameArg \in {"GITHUB_FOO", "1ABC", "bad-name", ""} => ~nameResult[1]
        /\ nameArg \in {"github_foo", "GITHUB"} => nameResult[1]

C15_Witness ==
    /\ pureCall = "validateSecretName"
    /\ nameArg = "GITHUB_FOO"
    /\ nameResult = <<FALSE>>

NameIsRejected(e) == ~(MatchesNamePattern(e.name) /\ ~StartsWithGithub(e.name))

\* C16 (as claimed): every name of the input is in exactly one of valid
\* and invalid, valid holds exactly the accepted entries with their
\* values, and invalid is the rejected names in the order the input gave
\* them.
C16_PartitionInInputOrder ==
    filterResult # <<>> =>
        LET r == filterResult[1]
            validNames == {r.valid[i].name : i \in 1..Len(r.valid)}
            invalidNames == {r.invalid[i] : i \in 1..Len(r.invalid)}
            rejected == SelectSeq(secretsArg, NameIsRejected)
        IN /\ validNames \cap invalidNames = {}
           /\ validNames \cup invalidNames =
                {secretsArg[i].name : i \in 1..Len(secretsArg)}
           /\ Len(r.valid) + Len(r.invalid) = Len(secretsArg)
           /\ {r.valid[i] : i \in 1..Len(r.valid)} =
                {secretsArg[i] : i \in {j \in 1..Len(secretsArg) :
                                            ~NameIsRejected(secretsArg[j])}}
           /\ r.invalid = [i \in 1..Len(rejected) |-> rejected[i].name]

\* C28: for every name, the validate callback of addSingleSecret returns
\* true exactly when validateSecretName returns true, and one of its
\* messages otherwise.
C28_CallbackAgreesWithValidateSecretName ==
    (nameResult # <<>> /\ callbackResult # <<>>) =>
        /\ callbackResult[1].ok <=> nameResult[1]
        /\ callbackResult[1].ok <=> callbackResult[1].message = ""

C28_Witness ==
    /\ nameArg = "GITHUB_A"
    /\ nameResult = <<FALSE>>
    /\ callbackResult = <<Refused("Secret names cannot start with GITHUB_")>>

----------------------------------------------------------------------------
(* Reaching the main menu *)

\* retries confirmed so far
Confirmed == Cardinality({i \in 1..Len(retryAnswers) : retryAnswers[i]})

\* C26: when mainMenu begins, this.github is the service constructed last,
\* the latest identity lookup was made with it and succeeded, and
\* currentUser is its result; authenticate is called once at the start and
\* once more per confirmed retry; a declined retry exits with code 1, and
\* then the menu is not reached; the process exits with code 1 or not at
\* all (a prompt that rejects also ends it so), and only from the exit.
C26_MenuOnlyWhenAuthenticated ==
    /\ cliPhase = "menu" =>
            /\ github = Len(services)
            /\ github > 0
            /\ lookupLog # <<>>
            /\ Last(lookupLog).ok
            /\ Last(lookupLog).service = github
            /\ currentUser = [login |-> Last(lookupLog).login, service |-> github]
            /\ exitCode = <<>>
            /\ \A i \in 1..Len(retryAnswers) : retryAnswers[i]
    /\ cliPhase # "constructed" => authAttempts = 1 + Confirmed
    /\ (\E i \in 1..Len(retryAnswers) : ~retryAnswers[i]) =>
            /\ cliPhase = "exited"
            /\ exitCode = <<1>>
            /\ ~Last(retryAnswers)
    /\ cliPhase = "exited" => exitCode = <<1>>
    /\ exitCode # <<>> => cliPhase = "exited"

C26_Witness ==
    /\ cliPhase = "menu"
    /\ services = <<"ghp_revoked", "gho_16C7">>
    /\ lookupLog = <<[service |-> 1, ok |-> FALSE, login |-> ""],
                     [service |-> 2, ok |-> TRUE, login |-> "octocat"]>>
    /\ retryAnswers = <<TRUE, TRUE>>
    /\ currentUser = [login |-> "octocat", service |-> 2]

----------------------------------------------------------------------------
(* The readiness barrier of encryptSecret *)

\* C20: an encryptSecret call has run the primitives (returned or thrown)
\* only if the library is ready; while it is not ready every call made is
\* waiting, and a call that had to wait fails only for its key, as a call
\* made after readiness does; the initialisation was started once.
C20_PrimitivesAfterReadiness ==
    /\ sodiumInits <= 1
    /\ \A e \in EncCalls :
        /\ encPhase[e] \in {"returned", "thrown"} => sodiumReady
        /\ (~sodiumReady /\ encPhase[e] # "idle") =>
                encPhase[e] = "awaiting" /\ encWaited[e]
        /\ encPhase[e] = "thrown" =>
                /\ EncryptionError(encArgs[e].publicKey) # ""
                /\ encOut[e] = Throw(EncryptionError(encArgs[e].publicKey))
        /\ encPhase[e] = "returned" =>
                /\ EncryptionError(encArgs[e].publicKey) = ""
                /\ \E eph \in Ephemerals :
                        encOut[e] = Ok(SealedCiphertext(encArgs[e].secretValue,
                                                        encArgs[e].publicKey, eph))

C20_Witness ==
    /\ encWaited["e1"]
    /\ encWaited["e2"]
    /\ encPhase["e1"] = "returned"
    /\ encPhase["e2"] = "returned"
    /\ encArgs["e1"].secretValue = "s3cr3t"
    /\ encArgs["e2"].secretValue = "p@ss w0rd"
    /\ sodiumInits = 1

====
